---- MODULE Spec2Model ----
(***************************************************************************)
(* Smart Notes frontend: the collaboration socket service                  *)
(* (src/src/services/pdf.ts, lines 321-551: socket.ts appended to pdf.ts), *)
(* the notes context (src/unnamed/part_000: NotesContext.tsx) and the note *)
(* editor (src/src/pages/NoteEditor.tsx).                                  *)
(*                                                                         *)
(* Time is discrete; one tick is 100 ms.  A timer is the number of ticks   *)
(* left; a timer that has reached 0 fires before time advances.  The retry *)
(* timers (RECONNECT_DELAY, 2000 ms) outlast every other delay of the      *)
(* service, and the socket's events come at arbitrary times, so a pending  *)
(* retry timer is only counted: it may fall due at any later step.         *)
(***************************************************************************)
EXTENDS Integers, Sequences, FiniteSets, TLC

----------------------------------------------------------------------------
(* Bounds of the model *)

MaxCalls == 2
MaxTimers == 2
MaxAttempts == 6
MaxEdits == 2
MaxTitles == 1
MaxWindowCalls == 3

(* Program constants, in ticks of 100 ms *)

MAX_RECONNECT_ATTEMPTS == 5
THROTTLE_WAIT == 3
JOIN_DELAY == 1
DEBOUNCE_WAIT == 10
GRACE_DELAY == 3

Notes == {"n1", "n2"}
Users == {"u1", "u2"}
localUser == "u1"
Routes == {"n1"}

None == [k |-> "none"]

(* Documents and titles are whole values.  0 is the empty value ('' or an  *)
(* absent field); StoredDoc and StoredTitle are what the store holds at    *)
(* the start; RemoteDoc and RemoteTitle come from another client; a local  *)
(* edit makes the document (or title) numbered by the count of edits.      *)
StoredDoc == 10
StoredTitle == 10
RemoteDoc == 20
RemoteTitle == 20
NewerDoc == 21

NoNote == [id |-> "none", content |-> 0, title |-> 0]
ClosedEditor ==
  [noteId |-> "none", content |-> 0, title |-> 0, remoteContent |-> 0,
   applying |-> FALSE]

----------------------------------------------------------------------------
VARIABLES
  socket,             \* "null" | "connecting" | "connected" | "down"
  autoReconnect,      \* the socket's own reconnection is running (reconnection: true)
  promise,            \* what waits on the initSocket promise of the current socket
  listeners,          \* 'note-updated' handlers registered on the current socket
  token,              \* localStorage has an authToken
  connectedRooms,
  connectionAttempts,
  retryTimers,        \* the number of pending RECONNECT_DELAY timers
  throttled,          \* lodash state of the throttled sendNoteUpdate
  delayed,            \* the pending JOIN_DELAY timers: the data each will emit
  userProfile,        \* AuthContext: the profile is loaded (its id is localUser)
  currentNote,        \* NotesContext state
  currentNoteId,      \* NotesContext ref
  notes,              \* NotesContext state: the notes lists, by note id
  error,              \* NotesContext state: "none" for null, else which message
  loading,            \* NotesContext state
  debounced,          \* the memoized updateNoteContent: lodash state and closure
  stale,              \* replaced updateNoteContent instances whose timer still runs, oldest first
  editor,             \* NoteEditor state, ClosedEditor when not mounted
  grace,              \* the pending 300 ms timers of the editor: ticks left, oldest first
  http,               \* PUT requests in flight, in the order issued
  deleting,           \* DELETE requests in flight
  deleted,            \* the notes a DELETE has removed from the store and the lists
  stored,             \* the document store behind the REST interface
  wire,               \* what the last step emitted on the socket, in order
  event,              \* the 'note-updated' event the last step delivered, or the
                      \* rejection of a promise in it, or None
  issued,             \* the PUT requests the last step issued, in order
  calls,              \* history: per sendNoteUpdate call, its note, whether it
                      \* carries a title, and its throttle window
  sent,               \* history: the calls whose data 'note:update' carried, in order
  window,             \* history: number of the current throttle window
  wanted,             \* history: rooms with a joinNote call and no leaveNote call since
  exhausted,          \* history: the retry budget ran out and no caller asked since
  newSocket,          \* history: the last step created a socket (io(API_URL, ...))
  edits,              \* history: number of local content edits (the last one's document)
  titles,             \* history: number of updateNote calls with a title
  burst,              \* history: the current run of edits less than DEBOUNCE_WAIT apart
  puts                \* history: the number of PUT requests issued, by note id

vars == <<socket, autoReconnect, promise, listeners, token, connectedRooms,
          connectionAttempts, retryTimers, throttled, delayed, userProfile,
          currentNote, currentNoteId, notes, error, loading, debounced, stale, editor,
          grace, http, deleting, deleted,
          stored, wire, event, issued, calls, sent, window, wanted, exhausted,
          newSocket, edits, titles, burst, puts>>

(* The state as one record, so that the functions of the program compose   *)
(* the way the calls in the code do.  wire, event, issued and newSocket    *)
(* describe one step and start empty.                                      *)
State ==
  [socket |-> socket, autoReconnect |-> autoReconnect, promise |-> promise,
   listeners |-> listeners, token |-> token, connectedRooms |-> connectedRooms,
   connectionAttempts |-> connectionAttempts, retryTimers |-> retryTimers,
   throttled |-> throttled, delayed |-> delayed, userProfile |-> userProfile,
   currentNote |-> currentNote, currentNoteId |-> currentNoteId, notes |-> notes,
   debounced |-> debounced, stale |-> stale, editor |-> editor, grace |-> grace,
   http |-> http, stored |-> stored, wire |-> <<>>, event |-> None,
   issued |-> <<>>, calls |-> calls, sent |-> sent, window |-> window,
   wanted |-> wanted, exhausted |-> exhausted, newSocket |-> FALSE,
   edits |-> edits, titles |-> titles, burst |-> burst, puts |-> puts,
   deleting |-> deleting, deleted |-> deleted,
   error |-> error, loading |-> loading]

Becomes(s) ==
  /\ socket' = s.socket
  /\ autoReconnect' = s.autoReconnect
  /\ promise' = s.promise
  /\ listeners' = s.listeners
  /\ token' = s.token
  /\ connectedRooms' = s.connectedRooms
  /\ connectionAttempts' = s.connectionAttempts
  /\ retryTimers' = s.retryTimers
  /\ throttled' = s.throttled
  /\ delayed' = s.delayed
  /\ userProfile' = s.userProfile
  /\ currentNote' = s.currentNote
  /\ currentNoteId' = s.currentNoteId
  /\ notes' = s.notes
  /\ debounced' = s.debounced
  /\ stale' = s.stale
  /\ editor' = s.editor
  /\ grace' = s.grace
  /\ http' = s.http
  /\ stored' = s.stored
  /\ wire' = s.wire
  /\ event' = s.event
  /\ issued' = s.issued
  /\ calls' = s.calls
  /\ sent' = s.sent
  /\ window' = s.window
  /\ wanted' = s.wanted
  /\ exhausted' = s.exhausted
  /\ newSocket' = s.newSocket
  /\ edits' = s.edits
  /\ puts' = s.puts
  /\ deleting' = s.deleting
  /\ deleted' = s.deleted
  /\ titles' = s.titles
  /\ error' = s.error
  /\ loading' = s.loading
  /\ burst' = s.burst

----------------------------------------------------------------------------
(* socket.emit: the message goes on the wire; the histories count it.      *)

Min(a, b) == IF a <= b THEN a ELSE b

emit(s, m) ==
  [s EXCEPT
     !.wire = Append(@, m),
     !.sent = IF m.ev = "note:update" THEN Append(@, m.id) ELSE @,
     !.burst.emits = IF m.ev = "note:update" /\ m.title = 0 /\ s.edits > 0
                       THEN Min(@ + 1, 2) ELSE @]

JoinMsg(n) == [ev |-> "note:join", noteId |-> n]
LeaveMsg(n) == [ev |-> "note:leave", noteId |-> n]
UpdateMsg(data) ==
  [ev |-> "note:update", noteId |-> data.noteId, content |-> data.content,
   title |-> data.title, userId |-> data.userId, id |-> data.id]

(* connectedRooms.forEach(roomId => socket.emit(ev, {noteId: roomId})) *)
RECURSIVE emitAll(_, _, _)
emitAll(s, ev, rooms) ==
  IF rooms = {} THEN s
  ELSE LET n == CHOOSE x \in rooms : TRUE
       IN emitAll(emit(s, [ev |-> ev, noteId |-> n]), ev, rooms \ {n})

----------------------------------------------------------------------------
(* joinNote, connected branch (lines 492-496) *)
joinConnected(s, noteId) ==
  IF noteId \notin s.connectedRooms
    THEN [emit(s, JoinMsg(noteId)) EXCEPT !.connectedRooms = @ \cup {noteId}]
    ELSE s

(* The .then callbacks of the initSocket callers.  result is what the      *)
(* promise resolved to: TRUE for the socket, FALSE for null.               *)
thenJoin(s, noteId, result) ==
  IF result /\ s.socket = "connected"
    THEN [emit(s, JoinMsg(noteId)) EXCEPT !.connectedRooms = @ \cup {noteId}]
    ELSE s

thenUpdate(s, data) ==
  IF s.socket = "connected"
    THEN IF data.noteId \notin s.connectedRooms
           THEN LET j == joinConnected([s EXCEPT !.wanted = @ \cup {data.noteId}],
                                       data.noteId)
                IN [j EXCEPT !.delayed = @ \cup {[data |-> data, left |-> JOIN_DELAY]}]
           ELSE emit(s, UpdateMsg(data))
    ELSE s

runThen(s, k, result) ==
  CASE k.k = "join" -> thenJoin(s, k.noteId, result)
    [] k.k = "update" -> thenUpdate(s, k.data)
    [] OTHER -> s

(* initSocket (lines 379-471); k is what the caller chains on the promise. *)
initSocket(s, k) ==
  IF s.socket = "connected" THEN runThen(s, k, TRUE)
  ELSE IF s.connectionAttempts >= MAX_RECONNECT_ATTEMPTS
    THEN [s EXCEPT !.connectionAttempts = 0, !.exhausted = TRUE]
  ELSE IF ~s.token THEN runThen(s, k, FALSE)
  ELSE [s EXCEPT !.socket = "connecting", !.autoReconnect = FALSE,
                 !.promise = k, !.listeners = 0, !.newSocket = TRUE]

(* joinNote (lines 474-500) *)
joinNote(s, noteId) ==
  LET w == [s EXCEPT !.wanted = @ \cup {noteId}]
  IN IF w.socket # "connected"
       THEN initSocket(w, [k |-> "join", noteId |-> noteId])
       ELSE joinConnected(w, noteId)

(* leaveNote deleting the room only in its connected branch *)
leaveNoteWhenConnected(s, noteId) ==
  LET w == [s EXCEPT !.wanted = @ \ {noteId}]
  IN IF w.socket = "connected" /\ noteId \in w.connectedRooms
       THEN [emit(w, LeaveMsg(noteId)) EXCEPT !.connectedRooms = @ \ {noteId}]
       ELSE w

(* leaveNote (lines 503-514) *)
leaveNote(s, noteId) ==
  LET w == [s EXCEPT !.wanted = @ \ {noteId}]
  IN IF w.socket # "connected"
       THEN [w EXCEPT !.connectedRooms = @ \ {noteId}]
       ELSE IF noteId \in w.connectedRooms
         THEN [emit(w, LeaveMsg(noteId)) EXCEPT !.connectedRooms = @ \ {noteId}]
         ELSE w

(* disconnectSocket (lines 536-551) *)
disconnectSocket(s) ==
  IF s.socket = "connected"
    THEN [emitAll(s, "note:leave", s.connectedRooms) EXCEPT
            !.connectedRooms = {}, !.socket = "null", !.autoReconnect = FALSE,
            !.promise = None, !.listeners = 0, !.wanted = {}]
    ELSE s

(* The function passed to throttle (lines 341-375) *)
sendNoteUpdateBody(s, data) ==
  IF s.socket # "connected"
    THEN initSocket(s, [k |-> "update", data |-> data])
    ELSE IF data.noteId \notin s.connectedRooms
      THEN LET j == joinNote(s, data.noteId)
           IN [j EXCEPT !.delayed = @ \cup {[data |-> data, left |-> JOIN_DELAY]}]
      ELSE emit(s, UpdateMsg(data))

----------------------------------------------------------------------------
(* lodash throttle(func, wait, {leading: true, trailing: true}), which is  *)
(* debounce with maxWait = wait.  sinceCall and sinceInvoke are the ages   *)
(* now - lastCallTime and now - lastInvokeTime, capped at wait; -1 is      *)
(* undefined.  timer is the ticks left of timerId, -1 when undefined.      *)

shouldInvoke(d) ==
  d.sinceCall = -1 \/ d.sinceCall >= THROTTLE_WAIT \/ d.sinceInvoke >= THROTTLE_WAIT

invokeFunc(s) ==
  LET args == s.throttled.lastArgs
  IN sendNoteUpdateBody(
       [s EXCEPT !.throttled.lastArgs = None, !.throttled.sinceInvoke = 0], args)

(* sendNoteUpdate(data): the throttled function is called *)
sendNoteUpdate(s, data) ==
  LET isInvoking == shouldInvoke(s.throttled)
      c == [s EXCEPT !.throttled.lastArgs = data, !.throttled.sinceCall = 0,
                     !.calls = Append(@, [noteId |-> data.noteId,
                        title |-> data.title # 0,
                        window |-> IF s.throttled.timer = -1 \/ isInvoking
                                     THEN s.window + 1 ELSE s.window]),
                     !.window = IF s.throttled.timer = -1 \/ isInvoking
                                  THEN @ + 1 ELSE @]
  IN IF isInvoking
       THEN invokeFunc([c EXCEPT !.throttled.timer = THROTTLE_WAIT])
       ELSE IF c.throttled.timer = -1
         THEN [c EXCEPT !.throttled.timer = THROTTLE_WAIT]
         ELSE c

(* timerExpired of the throttle *)
timerExpired(s) ==
  IF shouldInvoke(s.throttled)
    THEN IF s.throttled.lastArgs # None
           THEN invokeFunc([s EXCEPT !.throttled.timer = -1])
           ELSE [s EXCEPT !.throttled.timer = -1]
    ELSE [s EXCEPT !.throttled.timer =
            Min(THROTTLE_WAIT - s.throttled.sinceCall,
                THROTTLE_WAIT - s.throttled.sinceInvoke)]

----------------------------------------------------------------------------
(* The handlers initSocket registers on the socket *)

(* 'connect' (lines 421-433) *)
onConnect(s) ==
  LET c == [s EXCEPT !.socket = "connected", !.autoReconnect = FALSE,
                     !.connectionAttempts = 0]
      r == emitAll(c, "note:join", c.connectedRooms)
  IN runThen([r EXCEPT !.promise = None], s.promise, TRUE)

(* 'connect_error' (lines 435-447) *)
onConnectError(s) ==
  [s EXCEPT !.socket = "down", !.autoReconnect = TRUE,
            !.connectionAttempts = @ + 1,
            !.retryTimers = @ + 1,
            !.promise = None]

(* 'disconnect' (lines 449-460) *)
onDisconnect(s, reason) ==
  [s EXCEPT !.socket = "down",
            !.autoReconnect = (reason # "io server disconnect"),
            !.retryTimers = IF reason \in {"io server disconnect", "transport close"}
                              THEN @ + 1 ELSE @]

(* the retry timer's callback (lines 440-444, 454-458) *)
retryExpired(s) ==
  LET t == [s EXCEPT !.retryTimers = @ - 1]
  IN IF t.socket # "connected" THEN initSocket(t, None) ELSE t

(* the join delay's callback (lines 350-352, 366-368) *)
delayExpired(s, d) ==
  LET t == [s EXCEPT !.delayed = @ \ {d}]
  IN IF t.socket = "null" THEN t ELSE emit(t, UpdateMsg(d.data))


----------------------------------------------------------------------------
(* NotesContext (src/unnamed/part_000) and NoteEditor                      *)

(* useCallback(debounce(..., 1000), [currentNote, ..., userProfile]): a    *)
(* render with a changed dependency memoizes a new debounced function; the *)
(* old one keeps its pending timer and its closure.                        *)
rememo(s) ==
  [s EXCEPT
     !.stale = IF s.debounced.left >= 0 THEN Append(@, s.debounced) ELSE @,
     !.debounced = [left |-> -1, noteId |-> "none", content |-> 0,
                    cur |-> s.currentNote.id, profile |-> s.userProfile]]

(* The effects of a mounted NoteEditor after a render in which currentNote *)
(* (and with it fetchNote) changed: both socket effects (lines 122-176,    *)
(* 324-378) were cleaned up (socket.off) and run again: loadNote gets the  *)
(* cached note and each registers a handler; the currentNote effect (lines *)
(* 201-215) copies title and content.                                      *)
editorEffects(s) ==
  IF s.editor.noteId = "none" THEN s
  ELSE LET cn == s.currentNote
           cached == cn.id = s.editor.noteId
       IN [s EXCEPT
             !.listeners = IF s.socket # "null" THEN 2 ELSE 0,
             !.editor.title = IF cn.id # "none" THEN cn.title ELSE @,
             !.editor.content =
                IF cn.content # 0 /\ (cached \/ ~s.editor.applying)
                  THEN cn.content ELSE @]

(* The room effect of NotesProvider (lines 139-164): the cleanup of the    *)
(* previous run, then the new run.                                         *)
roomEffect(s) ==
  LET c == IF s.currentNoteId # "none"
             THEN [leaveNote(s, s.currentNoteId) EXCEPT !.currentNoteId = "none"]
             ELSE s
  IN IF c.currentNote.id = "none" THEN c
     ELSE [joinNote([c EXCEPT !.exhausted = FALSE], c.currentNote.id)
             EXCEPT !.currentNoteId = c.currentNote.id]

(* setCurrentNote(note) and the render and effects that follow it *)
setCurrentNote(s, note) ==
  roomEffect(editorEffects(rememo([s EXCEPT !.currentNote = note])))

(* notesAPI.updateNote (api.ts lines 62-65): the PUT is issued *)
putRequest(s, r) ==
  [s EXCEPT !.http = Append(@, r), !.issued = Append(@, r),
            !.puts[r.noteId] = @ + 1]

(* The debounced function sending the content of its closure's            *)
(* currentNote instead of its content argument                             *)
updateNoteContentBodyOfClosure(s, d) ==
  putRequest(
    [s EXCEPT !.notes[d.noteId].content = d.content,
              !.burst.puts = Min(@ + 1, 2), !.burst.put = d.content],
    [kind |-> "content", noteId |-> d.noteId, content |-> s.currentNote.content,
     title |-> 0, cur |-> d.cur, curContent |-> 0, profile |-> d.profile])

(* The function passed to debounce (lines 260-301), up to its await; d is  *)
(* the debounced instance that fires, with its arguments and closure.      *)
updateNoteContentBody(s, d) ==
  LET optimistic == [s EXCEPT !.notes[d.noteId].content = d.content]
      told == IF d.profile
                THEN sendNoteUpdate([optimistic EXCEPT !.exhausted = FALSE],
                       [id |-> Len(optimistic.calls) + 1, noteId |-> d.noteId,
                        content |-> d.content, title |-> 0, userId |-> localUser])
                ELSE optimistic
      put == putRequest(
               [told EXCEPT !.burst.puts = Min(@ + 1, 2), !.burst.put = d.content],
               [kind |-> "content", noteId |-> d.noteId, content |-> d.content,
                title |-> 0, cur |-> d.cur, curContent |-> 0, profile |-> d.profile])
  IN IF d.cur = d.noteId /\ put.currentNote.id # "none"
       THEN setCurrentNote(put, [put.currentNote EXCEPT !.content = d.content])
       ELSE put

(* updateNote with a title (lines 314-351): the request, and what follows  *)
(* the awaited response.                                                   *)
updateNoteRequest(s, kind, noteId, content, title) ==
  putRequest([s EXCEPT !.loading = TRUE, !.error = "none"], [kind |-> kind, noteId |-> noteId, content |-> content,
                 title |-> title, cur |-> s.currentNote.id,
                 curContent |-> s.currentNote.content, profile |-> s.userProfile])

Merge(old, r) ==
  [old EXCEPT !.content = IF r.content # 0 THEN r.content ELSE @,
              !.title = IF r.title # 0 THEN r.title ELSE @]

updateNoteDone(s, r) ==
  LET listed == [s EXCEPT !.notes[r.noteId] = Merge(@, r)]
      told == IF r.profile /\ r.title # 0
                THEN sendNoteUpdate([listed EXCEPT !.exhausted = FALSE],
                       [id |-> Len(listed.calls) + 1, noteId |-> r.noteId,
                        content |-> r.curContent, title |-> r.title,
                        userId |-> localUser])
                ELSE listed
      done == [told EXCEPT !.loading = FALSE]
  IN IF r.cur = r.noteId /\ done.currentNote.id # "none"
       THEN setCurrentNote(done, Merge(done.currentNote, r))
       ELSE done

(* updateNote applying its updates and notifying before the PUT is known   *)
(* to have failed                                                          *)
updateNoteFailedAfterUpdates(s, r) ==
  LET listed == [s EXCEPT !.notes[r.noteId] = Merge(@, r)]
      told == IF r.profile /\ r.title # 0
                THEN sendNoteUpdate([listed EXCEPT !.exhausted = FALSE],
                       [id |-> Len(listed.calls) + 1, noteId |-> r.noteId,
                        content |-> r.curContent, title |-> r.title,
                        userId |-> localUser])
                ELSE listed
  IN [told EXCEPT !.error = "update", !.loading = FALSE,
                  !.event = [k |-> "rejected", kind |-> r.kind]]

(* updateNote's catch and finally (lines 352-358): the promise rejects.    *)
(* A rejection nobody handles changes nothing else.                        *)
updateNoteFailed(s, r) ==
  [s EXCEPT !.error = "update", !.loading = FALSE,
            !.event = [k |-> "rejected", kind |-> r.kind]]

(* the catch of the debounced function (lines 296-300) *)
updateNoteContentFailed(s, r) ==
  [s EXCEPT !.error = "content", !.event = [k |-> "rejected", kind |-> r.kind]]

(* The store behind PUT /notes/:id replaces the fields the request names. *)
storePut(s, r) == [s EXCEPT !.stored[r.noteId] = Merge(@, r)]

(* NoteEditor unmounts: the effect cleanups (lines 170-175, 372-377) *)
unmount(s) ==
  [s EXCEPT !.editor = ClosedEditor, !.grace = <<>>, !.listeners = 0]

(* handleSave after updateNote has resolved (line 279): navigate *)
handleSaveDone(s) == unmount(s)

(* deleteNote (part_000 lines 361-388): the request, and what follows the  *)
(* awaited response.  r.cur is the closure's currentNote.                  *)
deleteNoteRequest(s, noteId) ==
  [s EXCEPT !.loading = TRUE, !.error = "none",
            !.deleting = @ \cup {[noteId |-> noteId, cur |-> s.currentNote.id]}]

deleteNoteDone(s, r) ==
  LET filtered == [s EXCEPT !.deleted = @ \cup {r.noteId}]
      reset == IF r.cur = r.noteId THEN setCurrentNote(filtered, NoNote)
               ELSE filtered
  IN [reset EXCEPT !.loading = FALSE]

(* handleDelete after deleteNote has resolved (line 297): navigate *)
handleDeleteDone(s) == unmount(s)

(* The remoteContent effect (lines 179-199) *)
applyRemote(s) ==
  IF s.editor.remoteContent # 0 /\ ~s.editor.applying
    THEN [s EXCEPT !.editor.applying = TRUE,
                   !.editor.content = s.editor.remoteContent,
                   !.editor.remoteContent = 0,
                   !.grace = Append(@, GRACE_DELAY)]
    ELSE s

(* The handler calling setRemoteContent(data.content) without testing     *)
(* data.content first                                                      *)
onNoteUpdatedAnyContent(s, data) ==
  LET h == IF data.noteId = s.editor.noteId /\ data.userId # localUser
             THEN [s EXCEPT
                     !.editor.remoteContent = data.content,
                     !.editor.title = IF data.title # 0 THEN data.title ELSE @]
             ELSE s
  IN IF h.editor.remoteContent # s.editor.remoteContent THEN applyRemote(h) ELSE h

(* The handler without its comparison of data.userId to the user's id *)
onNoteUpdatedAnySender(s, data) ==
  LET h == IF data.noteId = s.editor.noteId
             THEN [s EXCEPT
                     !.editor.remoteContent =
                        IF data.content # 0 THEN data.content ELSE @,
                     !.editor.title = IF data.title # 0 THEN data.title ELSE @]
             ELSE s
  IN IF h.editor.remoteContent # s.editor.remoteContent THEN applyRemote(h) ELSE h

(* The 'note-updated' handler (lines 155-167, 357-369) and the render that *)
(* follows it.                                                             *)
onNoteUpdated(s, data) ==
  LET h == IF data.noteId = s.editor.noteId /\ data.userId # localUser
             THEN [s EXCEPT
                     !.editor.remoteContent =
                        IF data.content # 0 THEN data.content ELSE @,
                     !.editor.title = IF data.title # 0 THEN data.title ELSE @]
             ELSE s
  IN IF h.editor.remoteContent # s.editor.remoteContent THEN applyRemote(h) ELSE h

(* handleEditorChange without the test of isApplyingRemoteUpdateRef *)
handleEditorChangeWhileApplying(s, doc) ==
  LET shown == [s EXCEPT !.editor.content = doc]
  IN IF shown.currentNote.id # "none"
       THEN [shown EXCEPT
               !.debounced.left = DEBOUNCE_WAIT,
               !.debounced.noteId = shown.currentNote.id,
               !.debounced.content = doc,
               !.burst = IF @.since >= DEBOUNCE_WAIT
                           THEN [puts |-> 0, put |-> 0, emits |-> 0, since |-> 0, last |-> doc]
                           ELSE [@ EXCEPT !.since = 0, !.last = doc]]
       ELSE shown

(* handleEditorChange (lines 244-260) *)
handleEditorChange(s, doc) ==
  IF s.editor.applying THEN s
  ELSE LET shown == [s EXCEPT !.editor.content = doc]
       IN IF shown.currentNote.id # "none"
            THEN [shown EXCEPT
                    !.debounced.left = DEBOUNCE_WAIT,
                    !.debounced.noteId = shown.currentNote.id,
                    !.debounced.content = doc,
                    !.burst = IF @.since >= DEBOUNCE_WAIT
                                THEN [puts |-> 0, put |-> 0, emits |-> 0, since |-> 0, last |-> doc]
                                ELSE [@ EXCEPT !.since = 0, !.last = doc]]
            ELSE shown

----------------------------------------------------------------------------
(* The state after the module is loaded (pdf.ts lines 325-327) and before  *)
(* the user's profile has loaded.                                          *)

Init ==
  /\ socket = "null"
  /\ autoReconnect = FALSE
  /\ promise = None
  /\ listeners = 0
  /\ token \in BOOLEAN
  /\ connectedRooms = {}
  /\ connectionAttempts = 0
  /\ retryTimers = 0
  /\ throttled = [timer |-> -1, lastArgs |-> None, sinceCall |-> -1,
                  sinceInvoke |-> THROTTLE_WAIT]
  /\ delayed = {}
  /\ userProfile = FALSE
  /\ currentNote = NoNote
  /\ currentNoteId = "none"
  /\ notes = [n \in Notes |-> [content |-> 0, title |-> 0]]
  /\ debounced = [left |-> -1, noteId |-> "none", content |-> 0, cur |-> "none",
                  profile |-> FALSE]
  /\ stale = <<>>
  /\ editor = ClosedEditor
  /\ grace = <<>>
  /\ http = <<>>
  /\ stored = [n \in Notes |-> [content |-> StoredDoc, title |-> StoredTitle]]
  /\ wire = <<>>
  /\ event = None
  /\ issued = <<>>
  /\ calls = <<>>
  /\ sent = <<>>
  /\ window = 0
  /\ wanted = {}
  /\ exhausted = FALSE
  /\ newSocket = FALSE
  /\ edits = 0
  /\ titles = 0
  /\ error = "none"
  /\ loading = FALSE
  /\ burst = [puts |-> 0, put |-> 0, emits |-> 0, since |-> DEBOUNCE_WAIT, last |-> 0]
  /\ puts = [n \in Notes |-> 0]
  /\ deleting = {}
  /\ deleted = {}

(* A call by application code asks for a connection again. *)
Asked == [State EXCEPT !.exhausted = FALSE]

(* Application code calls the exported functions. *)
CallInitSocket == Becomes(initSocket(Asked, None))

CallJoinNote == \E n \in Notes : Becomes(joinNote(Asked, n))

CallLeaveNote == \E n \in Notes : Becomes(leaveNote(State, n))

CallDisconnectSocket == Becomes(disconnectSocket(State))

CallSendNoteUpdate ==
  /\ Len(calls) < MaxCalls
  /\ \E n \in Notes :
       Becomes(sendNoteUpdate(Asked,
         [id |-> Len(calls) + 1, noteId |-> n, content |-> Len(calls) + 1,
          title |-> 0, userId |-> localUser]))

(* Application code calls sendNoteUpdate, up to three times in a run, so    *)
(* that a call can find an earlier call's data waiting in the throttle.    *)
CallSendNoteUpdateAgain ==
  /\ Len(calls) < MaxWindowCalls
  /\ \E n \in Notes :
       Becomes(sendNoteUpdate(Asked,
         [id |-> Len(calls) + 1, noteId |-> n, content |-> Len(calls) + 1,
          title |-> 0, userId |-> localUser]))

(* localStorage gains or loses the authToken. *)
TokenChanges == Becomes([State EXCEPT !.token = ~token])

(* The socket raises its events. *)
Connect ==
  /\ socket = "connecting" \/ (socket = "down" /\ autoReconnect)
  /\ Becomes(onConnect(State))

ConnectError ==
  /\ socket = "connecting" \/ (socket = "down" /\ autoReconnect)
  /\ retryTimers < MaxTimers
  /\ connectionAttempts < MaxAttempts
  /\ Becomes(onConnectError(State))

Disconnect ==
  /\ socket = "connected"
  /\ \E reason \in {"io server disconnect", "transport close", "ping timeout"} :
       /\ reason # "ping timeout" => retryTimers < MaxTimers
       /\ Becomes(onDisconnect(State, reason))

(* The server delivers 'note-updated' to the handlers on the socket. *)
NoteUpdated ==
  /\ socket = "connected"
  /\ listeners > 0
  /\ \E n \in Notes, u \in Users, c \in {0, RemoteDoc, NewerDoc},
        ti \in {0, RemoteTitle} :
       /\ c # 0 \/ ti # 0
       /\ LET data == [k |-> "note-updated", noteId |-> n, userId |-> u,
                       content |-> c, title |-> ti]
          IN Becomes(onNoteUpdated([State EXCEPT !.event = data], data))

(* The timers fire. *)
RetryFires ==
  /\ retryTimers > 0
  /\ Becomes(retryExpired(State))

ThrottleFires ==
  /\ throttled.timer = 0
  /\ Becomes(timerExpired(State))

DelayFires ==
  \E d \in delayed :
    /\ d.left = 0
    /\ Becomes(delayExpired(State, d))

StaleDue == stale # <<>> /\ Head(stale).left = 0

DebounceFires ==
  /\ debounced.left = 0
  /\ ~StaleDue
  /\ Becomes(updateNoteContentBody([State EXCEPT !.debounced.left = -1], debounced))

(* The timer of a debounced function that a render has replaced; timers   *)
(* fire in the order they were set.                                        *)
StaleDebounceFires ==
  /\ StaleDue
  /\ Becomes(updateNoteContentBody([State EXCEPT !.stale = Tail(@)], Head(stale)))

GraceFires ==
  /\ grace # <<>>
  /\ Head(grace) = 0
  /\ Becomes([State EXCEPT !.grace = Tail(@), !.editor.applying = FALSE])

Age(a, cap) == IF a = -1 \/ a >= cap THEN a ELSE a + 1
Less(a) == IF a > 0 THEN a - 1 ELSE a

Tick ==
  /\ throttled.timer # 0
  /\ \A d \in delayed : d.left > 0
  /\ debounced.left # 0
  /\ ~StaleDue
  /\ grace # <<>> => Head(grace) > 0
  /\ Becomes([State EXCEPT
       !.throttled = [@ EXCEPT !.timer = Less(@),
                               !.sinceCall = Age(@, THROTTLE_WAIT),
                               !.sinceInvoke = Age(@, THROTTLE_WAIT)],
       !.delayed = {[d EXCEPT !.left = @ - 1] : d \in @},
       !.debounced.left = Less(@),
       !.stale = [i \in DOMAIN @ |-> [@[i] EXCEPT !.left = @ - 1]],
       !.grace = [i \in DOMAIN @ |-> @[i] - 1],
       !.burst.since = Age(@, DEBOUNCE_WAIT)])

(* The user and the rest of the application *)

(* AuthContext loads the profile: NotesProvider's effects run (lines       *)
(* 103-136, 205-210): initSocket, and fetchNotes fills the lists.          *)
ProfileLoads ==
  /\ ~userProfile
  /\ Becomes(initSocket(
       rememo([Asked EXCEPT !.userProfile = TRUE,
                            !.notes = [n \in Notes |-> stored[n]]]), None))

(* The route /notes/:noteId mounts NoteEditor: loadNote runs in both       *)
(* socket effects, and each GET that is needed ends in setCurrentNote.     *)
OpenNote ==
  /\ userProfile
  /\ editor.noteId = "none"
  /\ \E n \in Routes \ deleted :
       LET mounted == editorEffects([State EXCEPT !.editor.noteId = n])
           note == [id |-> n, content |-> stored[n].content, title |-> stored[n].title]
       IN Becomes(IF currentNote.id = n THEN mounted
                  ELSE setCurrentNote(setCurrentNote(mounted, note), note))

(* handleBack (lines 319-321), or any route change away from the note *)
CloseEditor ==
  /\ editor.noteId # "none"
  /\ Becomes(unmount(State))

(* The user types in the editor. *)
LocalEdit ==
  /\ editor.noteId # "none"
  /\ edits < MaxEdits
  /\ debounced.left # 0
  /\ ~StaleDue
  /\ Becomes(handleEditorChange([State EXCEPT !.edits = @ + 1], edits + 1))

(* handleTitleChange (lines 233-241) *)
TitleEdit ==
  /\ editor.noteId # "none"
  /\ titles < MaxTitles
  /\ Becomes(updateNoteRequest(
       [State EXCEPT !.titles = @ + 1, !.editor.title = titles + 1],
       "title", editor.noteId, 0, titles + 1))

(* A PUT comes back with success: the store has taken it. *)
PutSucceeds ==
  \E i \in DOMAIN http :
    LET r == http[i]
        rest == [j \in 1..(Len(http) - 1) |-> IF j < i THEN http[j] ELSE http[j + 1]]
        saved == storePut([State EXCEPT !.http = rest], r)
    IN Becomes(CASE r.kind = "content" -> saved
                 [] r.kind = "title" -> updateNoteDone(saved, r)
                 [] r.kind = "save" -> handleSaveDone(updateNoteDone(saved, r)))

(* A PUT comes back with an error: the store has not taken it. *)
PutFails ==
  \E i \in DOMAIN http :
    LET r == http[i]
        rest == [j \in 1..(Len(http) - 1) |-> IF j < i THEN http[j] ELSE http[j + 1]]
        failed == [State EXCEPT !.http = rest]
    IN Becomes(IF r.kind = "content" THEN updateNoteContentFailed(failed, r)
               ELSE updateNoteFailed(failed, r))

(* handleDelete (lines 291-302), confirmed by the user *)
DeleteNote ==
  /\ editor.noteId # "none"
  /\ editor.noteId \notin deleted
  /\ \A r \in deleting : r.noteId # editor.noteId
  /\ Becomes(deleteNoteRequest(State, editor.noteId))

(* The DELETE comes back with success. *)
DeleteSucceeds ==
  \E r \in deleting :
    Becomes(handleDeleteDone(deleteNoteDone([State EXCEPT !.deleting = @ \ {r}], r)))

(* handleSave (lines 262-289) of a note that exists *)
Save ==
  /\ editor.noteId # "none"
  /\ titles < MaxTitles
  /\ Becomes(updateNoteRequest([State EXCEPT !.titles = @ + 1],
       "save", editor.noteId, editor.content, editor.title))

(* Another client's PUT reaches the store. *)
RemoteSave ==
  \E n \in Routes :
    Becomes(storePut(State, [noteId |-> n, content |-> RemoteDoc, title |-> 0]))

(* The connection manager and the room tracker: application code calls    *)
(* the exported functions while the socket connects, fails and drops.      *)
NextConn ==
  \/ CallInitSocket
  \/ CallJoinNote
  \/ CallLeaveNote
  \/ CallDisconnectSocket
  \/ TokenChanges
  \/ Connect
  \/ ConnectError
  \/ Disconnect
  \/ RetryFires

SpecConn == Init /\ [][NextConn]_vars

(* The outbound throttler: application code also submits updates, and the *)
(* throttle and join-delay timers run.                                     *)
NextSend ==
  \/ CallSendNoteUpdate
  \/ CallJoinNote
  \/ CallLeaveNote
  \/ Connect
  \/ Disconnect
  \/ RetryFires
  \/ ThrottleFires
  \/ DelayFires
  \/ Tick

InitSend == Init /\ token

SpecSend == InitSend /\ [][NextSend]_vars

(* The throttle under three calls, over a connection that is not lost *)
NextWindow ==
  \/ CallSendNoteUpdateAgain
  \/ CallJoinNote
  \/ CallLeaveNote
  \/ Connect
  \/ ThrottleFires
  \/ DelayFires
  \/ Tick

SpecWindow == InitSend /\ [][NextWindow]_vars

(* The editor: a signed-in user opens a note, types, renames and leaves   *)
(* while the saves come back and another client saves the same note.       *)
InitApp == Init /\ token

NextEdit ==
  \/ ProfileLoads
  \/ OpenNote
  \/ CloseEditor
  \/ LocalEdit
  \/ TitleEdit
  \/ PutSucceeds
  \/ RemoteSave
  \/ Connect
  \/ ThrottleFires
  \/ DelayFires
  \/ DebounceFires
  \/ StaleDebounceFires
  \/ Tick

SpecEdit == InitApp /\ [][NextEdit]_vars

(* Failing saves: the user types, renames and saves, and a PUT may come    *)
(* back with an error.                                                     *)
NextFail ==
  \/ ProfileLoads
  \/ OpenNote
  \/ LocalEdit
  \/ TitleEdit
  \/ Save
  \/ PutSucceeds
  \/ PutFails
  \/ Connect
  \/ ThrottleFires
  \/ DelayFires
  \/ DebounceFires
  \/ StaleDebounceFires
  \/ Tick

SpecFail == InitApp /\ [][NextFail]_vars

(* Collaboration: the user types while updates of other clients, and the   *)
(* echoes of the user's own, arrive.                                       *)
NextCollab ==
  \/ ProfileLoads
  \/ OpenNote
  \/ CloseEditor
  \/ LocalEdit
  \/ PutSucceeds
  \/ NoteUpdated
  \/ Connect
  \/ ThrottleFires
  \/ DebounceFires
  \/ GraceFires
  \/ Tick

SpecCollab == InitApp /\ [][NextCollab]_vars

(* The editor of a note that is typed in and then deleted *)
NextDelete ==
  \/ ProfileLoads
  \/ OpenNote
  \/ LocalEdit
  \/ DeleteNote
  \/ DeleteSucceeds
  \/ PutSucceeds
  \/ Connect
  \/ ThrottleFires
  \/ DelayFires
  \/ DebounceFires
  \/ StaleDebounceFires
  \/ Tick

SpecDelete == InitApp /\ [][NextDelete]_vars

TypeOK ==
  /\ socket \in {"null", "connecting", "connected", "down"}
  /\ connectedRooms \subseteq Notes
  /\ connectionAttempts \in 0..MaxAttempts
  /\ retryTimers \in 0..MaxTimers
  /\ Len(sent) <= Len(calls)
  /\ listeners \in 0..2

----------------------------------------------------------------------------
(* Claims about the connection manager and the room tracker *)

HasJoin(w, n) == \E i \in DOMAIN w : w[i] = JoinMsg(n)
HasLeave(w, n) == \E i \in DOMAIN w : w[i] = LeaveMsg(n)

Joins(w, n) == Cardinality({i \in DOMAIN w : w[i] = JoinMsg(n)})

(* C4: when the socket becomes connected, the step emits exactly one       *)
(* 'note:join' for every room that is still in connectedRooms (the rooms   *)
(* held at the disconnect and not left since), and no 'note:leave'.        *)
C4_OneJoinPerRoomOnReconnect ==
  [][(socket # "connected" /\ socket' = "connected")
       => \A n \in connectedRooms :
            Joins(wire', n) = 1 /\ ~HasLeave(wire', n)]_vars

(* C7: an initSocket call made while an attempt is connecting creates no   *)
(* new socket (and so leaves the in-flight attempt alone).                 *)
C7_OneAttemptInFlight ==
  [][socket = "connecting" => ~newSocket']_vars

(* C8: once the retry budget is exhausted, no retry timer starts another   *)
(* connection attempt until application code asks for a connection.        *)
C8_NoRetryAfterExhaustion ==
  [][(exhausted /\ RetryFires) => ~newSocket']_vars

(* C9: a room is in connectedRooms only while wanted: some joinNote call   *)
(* for it was made and no leaveNote call for it came after that.           *)
C9_MemberOnlyIfJoinedAndNotLeft ==
  connectedRooms \subseteq wanted

(* C10: joinNote(N) with N already in connectedRooms emits no 'note:join', *)
(* starts no connection attempt and leaves connectedRooms unchanged.       *)
C10_JoinIdempotent ==
  [][\A n \in Notes :
       (n \in connectedRooms /\ Becomes(joinNote(Asked, n)))
         => (~HasJoin(wire', n) /\ ~newSocket' /\ connectedRooms' = connectedRooms)]_vars

----------------------------------------------------------------------------
(* Claims about the outbound throttler *)

SameWindow(a, b) ==
  calls[a].window = calls[b].window /\ calls[a].noteId = calls[b].noteId

(* C1: of the sendNoteUpdate calls for one note within one throttle        *)
(* window, at most two are emitted, and never an earlier call's data after *)
(* a later call's.                                                         *)
C1_TwoEmissionsLatestLast ==
  /\ \A i \in DOMAIN sent :
       Cardinality({j \in DOMAIN sent : SameWindow(sent[i], sent[j])}) <= 2
  /\ \A i, j \in DOMAIN sent :
       (i < j /\ SameWindow(sent[i], sent[j])) => sent[i] < sent[j]

(* C2: a burst of edits (each less than 1000 ms after the one before) ends *)
(* in one PUT and one note:update emission, both carrying the last edit's  *)
(* content, also when the debounced function is re-created during the      *)
(* burst: never more than one PUT or emission for a burst, and once the    *)
(* burst is over and no debounce timer is left, exactly one PUT, carrying  *)
(* the last edit.                                                          *)
C2_OnePutOneEmissionPerBurst ==
  /\ burst.puts <= 1
  /\ burst.emits <= 1
  /\ (burst.last # 0 /\ burst.since >= DEBOUNCE_WAIT
        /\ debounced.left = -1 /\ stale = <<>>)
       => (burst.puts = 1 /\ burst.put = burst.last)

(* C3: a 'note-updated' event whose userId is the local user's changes     *)
(* neither the editor's content nor its pending remote content nor its     *)
(* title.                                                                  *)
C3_SelfEchoIgnored ==
  [][(event'.k = "note-updated" /\ event'.userId = localUser)
       => /\ editor'.content = editor.content
          /\ editor'.remoteContent = editor.remoteContent
          /\ editor'.title = editor.title]_vars

C3_SelfEchoDelivered ==
  /\ event.k = "note-updated"
  /\ event.userId = localUser
  /\ event.noteId = editor.noteId
  /\ event.content # 0
  /\ event.content # editor.content
  /\ event.title # 0
  /\ event.title # editor.title
  /\ listeners > 0

(* C5: when the editor of a note closes while a debounced save is pending, *)
(* that step issues the PUT with the pending content and emits note:leave  *)
(* for the note.                                                           *)
C5_CloseFlushesThenLeaves ==
  [][(editor.noteId # "none" /\ editor'.noteId = "none" /\ debounced.left >= 0)
       => /\ \E i \in DOMAIN issued' :
               /\ issued'[i].noteId = debounced.noteId
               /\ issued'[i].content = debounced.content
          /\ HasLeave(wire', editor.noteId)]_vars

C11_JoinRetriedOnConnect ==
  [][(socket # "connected" /\ socket' = "connected")
       => \A n \in wanted \ connectedRooms :
            HasJoin(wire', n) /\ n \in connectedRooms']_vars

(* C12: a room asked for while the socket was not connected and left       *)
(* again before the connection completes is not joined by the step in      *)
(* which the socket connects: no note:join for it, and it is not in        *)
(* connectedRooms.                                                         *)
C12_PendingJoinCancelable ==
  [][(socket # "connected" /\ socket' = "connected")
       => \A n \in Notes \ (wanted \cup connectedRooms) :
            ~HasJoin(wire', n) /\ n \notin connectedRooms']_vars

(* C13: leaveNote(N) removes N from connectedRooms in every connection     *)
(* state and no other room; it emits nothing but note:leave for N, and     *)
(* only when connected; when not connected it emits nothing and starts no  *)
(* connection attempt.                                                     *)
C13_LeaveNoteFrame ==
  [][\A n \in Notes :
       Becomes(leaveNote(State, n))
         => /\ connectedRooms' = connectedRooms \ {n}
            /\ \A i \in DOMAIN wire' : wire'[i] = LeaveMsg(n)
            /\ socket' = socket
            /\ ~newSocket'
            /\ socket # "connected" => wire' = <<>>]_vars

C13_LeftWhileOthersStay ==
  /\ wire = <<LeaveMsg("n1")>>
  /\ "n1" \notin connectedRooms
  /\ "n2" \in connectedRooms
  /\ socket = "connected"

(* C14: no update is silently dropped.  Once the socket is connected and   *)
(* every timer and promise of the service has run out, each update whose   *)
(* note's room is joined has been emitted, or a later update of the same   *)
(* note has.  (With MaxCalls calls per run the throttle invokes its        *)
(* function for every call, so the emission of every call falls due.)      *)
C14_UpdateNeverDropped ==
  (/\ socket = "connected"
   /\ promise = None
   /\ throttled.timer = -1
   /\ delayed = {}
   /\ retryTimers = 0)
    => \A i \in DOMAIN calls :
         calls[i].noteId \in connectedRooms
           => \E j \in DOMAIN sent :
                sent[j] >= i /\ calls[sent[j]].noteId = calls[i].noteId

(* C15: while a note is open in the editor at most one 'note-updated'      *)
(* handler is registered on the socket.                                    *)
C15_OneHandlerRegistered ==
  editor.noteId # "none" => listeners <= 1

(* C16: of two accepted remote contents the later one is applied, also     *)
(* when it arrives while the earlier one is being applied: once the        *)
(* applying-remote-update period is over, no received content that differs *)
(* from what the editor shows is left waiting.                             *)
C16_LatestRemoteApplied ==
  (editor.noteId # "none" /\ ~editor.applying /\ editor.remoteContent # 0)
    => editor.content = editor.remoteContent

(* C17: a 'note-updated' event with a title and no content leaves the      *)
(* editor content and the pending remoteContent as they were.              *)
C17_TitleOnlyEventKeepsContent ==
  [][(event'.k = "note-updated" /\ event'.content = 0)
       => /\ editor'.content = editor.content
          /\ editor'.remoteContent = editor.remoteContent]_vars

C17_TitleOnlyEventApplied ==
  /\ event.k = "note-updated"
  /\ event.content = 0
  /\ event.userId # localUser
  /\ event.noteId = editor.noteId
  /\ listeners > 0
  /\ editor.title = event.title
  /\ editor.remoteContent # 0
  /\ editor.content # 0

(* C18: when the PUT of a debounced content save fails, the step sets no   *)
(* error state, keeps the optimistic content in the notes lists and in     *)
(* currentNote, and leaves a debounced save scheduled that will send the   *)
(* same or newer content.                                                  *)
C18_ContentSaveFailsSilently ==
  [][(event'.k = "rejected" /\ event'.kind = "content")
       => /\ error' = error
          /\ notes' = notes
          /\ currentNote' = currentNote
          /\ debounced'.left >= 0 \/ stale' # <<>>]_vars

(* C19: when the PUT of updateNote with a title fails (a title edit or     *)
(* Save), the promise rejects and the step sets the error state, leaves    *)
(* the notes lists and currentNote as they were, calls sendNoteUpdate not  *)
(* at all, emits nothing, and sets loading to false.                       *)
C19_TitleSaveFailureSurfaced ==
  [][(event'.k = "rejected" /\ event'.kind # "content")
       => /\ error' # "none"
          /\ notes' = notes
          /\ currentNote' = currentNote
          /\ calls' = calls
          /\ wire' = <<>>
          /\ loading' = FALSE]_vars

C19_TitleSaveFailed ==
  /\ event.k = "rejected"
  /\ event.kind \in {"title", "save"}
  /\ error = "update"
  /\ editor.noteId # "none"
  /\ editor.title # currentNote.title
  /\ userProfile

(* C20: title updates and content updates are throttled independently, so  *)
(* neither delays the other's emission: the first content update of a run  *)
(* and the first title update of a run, submitted while the socket is      *)
(* connected and the note's room joined, are emitted by the step that      *)
(* submits them, whatever updates of the other kind came before.           *)
C20_KindsThrottledIndependently ==
  [][(/\ Len(calls') = Len(calls) + 1
      /\ \A i \in DOMAIN calls : calls[i].title # calls'[Len(calls')].title
      /\ socket = "connected"
      /\ calls'[Len(calls')].noteId \in connectedRooms)
       => \E i \in DOMAIN wire' :
            wire'[i].ev = "note:update" /\ wire'[i].id = Len(calls')]_vars

----------------------------------------------------------------------------
(* Claims about saving, deleting and the editor's connection *)

Emissions(n) == Cardinality({j \in DOMAIN sent : calls[sent[j]].noteId = n})

(* C21: for every note, the number of PUT requests issued for it never     *)
(* exceeds the number of 'note:update' messages emitted for it (so title   *)
(* keystrokes do not each produce a PUT of their own).                     *)
C21_PutsNeverExceedEmissions ==
  \A n \in Notes : puts[n] <= Emissions(n)

(* C22: a content edit submitted to updateNoteContent is shown in the      *)
(* notes lists and in currentNote by the submitting step itself, without   *)
(* waiting for the debounce delay.                                         *)
C22_EditShownAtSubmission ==
  [][(edits' = edits + 1 /\ debounced'.left = DEBOUNCE_WAIT
        /\ debounced'.content = edits')
       => (/\ currentNote'.content = edits'
           /\ notes'[debounced'.noteId].content = edits')]_vars

(* C23: while the editor's applying flag is set, a change callback of the  *)
(* editor does not reach updateNoteContent, and the step that applies a    *)
(* remote update passes nothing to sendNoteUpdate, arms no debounce timer  *)
(* and issues no PUT; and whenever the flag is set, the timer that clears  *)
(* it is pending and due within GRACE_DELAY.                               *)
C23_ApplyingSuppressesOutbound ==
  /\ [](editor.applying => (grace # <<>> /\ Head(grace) <= GRACE_DELAY))
  /\ [][/\ (editor.applying /\ edits' = edits + 1)
             => (/\ debounced' = debounced
                 /\ stale' = stale
                 /\ calls' = calls
                 /\ issued' = <<>>
                 /\ wire' = <<>>)
        /\ (~editor.applying /\ editor'.applying)
             => (/\ debounced' = debounced
                 /\ stale' = stale
                 /\ calls' = calls
                 /\ issued' = <<>>
                 /\ wire' = <<>>)]_vars

C23_EditWhileApplying ==
  /\ editor.applying
  /\ editor.content \in {RemoteDoc, NewerDoc}
  /\ edits >= 1
  /\ burst.last = 0

(* C24: an update waiting in the throttle leaves it only when the timer    *)
(* hands it to the throttled function or when a call for the same note     *)
(* replaces it: a call for another note never takes its place.             *)
C24_SupersededOnlyBySameNote ==
  [][(/\ throttled.lastArgs # None
      /\ throttled'.lastArgs # throttled.lastArgs
      /\ ~ThrottleFires)
       => (/\ Len(calls') = Len(calls) + 1
           /\ calls'[Len(calls')].noteId = throttled.lastArgs.noteId)]_vars

(* C25: a 'note-updated' event that carries a title, which is what another *)
(* client's title change sends, leaves the content shown in the editor as  *)
(* it was.                                                                 *)
C25_TitleEditKeepsPeerContent ==
  [][(event'.k = "note-updated" /\ event'.title # 0)
       => editor'.content = editor.content]_vars

(* C26: whenever the socket is connected and a note is open in the editor, *)
(* a 'note-updated' handler is registered on the current socket.           *)
C26_HandlerOnCurrentSocket ==
  (socket = "connected" /\ editor.noteId # "none") => listeners >= 1

HasUpdate(w, n) == \E i \in DOMAIN w : w[i].ev = "note:update" /\ w[i].noteId = n
HasPut(q, n) == \E i \in DOMAIN q : q[i].noteId = n

(* C27: once deleteNote(N) has succeeded, no step issues a PUT for N or    *)
(* emits a 'note:update' for N, also when a debounced content save for N   *)
(* was pending at the deletion.                                            *)
C27_NothingSentAfterDelete ==
  [][\A n \in deleted : ~HasPut(issued', n) /\ ~HasUpdate(wire', n)]_vars

(* C28: while the same note stays current, a change of the currentNote     *)
(* object emits no 'note:leave' and no 'note:join'; when the current note  *)
(* changes to another note, the leave of the previous note comes before    *)
(* the join of the new one.                                                *)
C28_RoomKeptWhileNoteStays ==
  [][/\ (currentNote.id # "none" /\ currentNote'.id = currentNote.id
           /\ currentNote' # currentNote)
          => \A i \in DOMAIN wire' : wire'[i].ev \notin {"note:leave", "note:join"}
     /\ (currentNote.id # "none" /\ currentNote'.id # "none"
           /\ currentNote'.id # currentNote.id)
          => \A i, j \in DOMAIN wire' :
               (wire'[i] = LeaveMsg(currentNote.id)
                  /\ wire'[j] = JoinMsg(currentNote'.id)) => i < j]_vars

(* C29: every local change in the editor of an existing note is kept in    *)
(* the editor state and submitted to updateNoteContent, also within the    *)
(* 300 ms after a remote update was applied.                               *)
C29_EveryKeystrokeKept ==
  [][(edits' = edits + 1 /\ editor.noteId # "none" /\ currentNote.id # "none")
       => (/\ editor'.content = edits'
           /\ debounced'.content = edits'
           /\ debounced'.left = DEBOUNCE_WAIT)]_vars

(* C30: a disconnectSocket call, in whatever state it is made, leaves the  *)
(* socket null and connectedRooms empty; and while the socket is null      *)
(* after it, no retry timer starts a connection attempt.                   *)
C30_DisconnectIsFinal ==
  [][/\ Becomes(disconnectSocket(State))
          => (socket' = "null" /\ connectedRooms' = {})
     /\ (socket = "null" /\ RetryFires) => ~newSocket']_vars

====
